---- MODULE Spec2Model ----
(***************************************************************************)
(* A model of include/cupti_profiler.h: the multi-pass CUPTI profiler.     *)
(*                                                                         *)
(*   - cupti_profiler::profiler           (constructor, stop, getters)     *)
(*   - cupti_profiler::detail::get_value_callback  (the launch callback)   *)
(*   - the CUPTI_CALL macro               (exit(-1) on a failed call)      *)
(*                                                                         *)
(* CUPTI itself is outside the repository.  It is modelled by what the     *)
(* code reads from it: the event group sets a partition returns, the       *)
(* attributes of a group, the raw per-instance values of an event, and     *)
(* whether a call succeeds.                                                *)
(***************************************************************************)
EXTENDS Integers, Sequences, FiniteSets, TLC

(***************************************************************************)
(* uint64_t.  TLC's integers are narrower than 64 bits, so a uint64_t is   *)
(* four 16-bit limbs, least significant first; the operations are those    *)
(* of the C code, each modulo 2^64.                                        *)
(***************************************************************************)
LimbBase == 256 * 256

U64Limbs == 64 \div 16

\* The uint64_t holding n, for a small n (0 <= n < 2^31).
U64(n) == <<n % LimbBase, n \div LimbBase, 0, 0>>

IsU64(a) ==
  /\ DOMAIN a = 1..U64Limbs
  /\ \A i \in 1..U64Limbs : a[i] \in 0..(LimbBase - 1)

\* sum += values[k]  (uint64_t addition: the carry out of bit 63 is dropped)
U64Add(a, b) ==
  LET s1 == a[1] + b[1]
      s2 == a[2] + b[2] + (s1 \div LimbBase)
      s3 == a[3] + b[3] + (s2 \div LimbBase)
      s4 == a[4] + b[4] + (s3 \div LimbBase)
  IN  <<s1 % LimbBase, s2 % LimbBase, s3 % LimbBase, s4 % LimbBase>>

\* sum * numTotalInstances  (uint64_t by uint32_t, the product modulo 2^64;
\* t < 2^15 keeps every limb product inside TLC's integers)
U64MulSmall(a, t) ==
  LET p1 == a[1] * t
      p2 == a[2] * t + (p1 \div LimbBase)
      p3 == a[3] * t + (p2 \div LimbBase)
      p4 == a[4] * t + (p3 \div LimbBase)
  IN  <<p1 % LimbBase, p2 % LimbBase, p3 % LimbBase, p4 % LimbBase>>

\* x / numInstances  (unsigned truncating division, n >= 1, n < 2^15)
U64DivSmall(a, n) ==
  LET d4 == a[4]
      d3 == (d4 % n) * LimbBase + a[3]
      d2 == (d3 % n) * LimbBase + a[2]
      d1 == (d2 % n) * LimbBase + a[1]
  IN  <<d1 \div n, d2 \div n, d3 \div n, d4 \div n>>

\* for(k = 0; k < numInstances; k++) sum += values[k];   (sum starts at 0)
RECURSIVE SumInstances(_, _)
SumInstances(values, k) ==
  IF k = 0 THEN U64(0)
  ELSE U64Add(SumInstances(values, k - 1), values[k])

\* normalized = (sum * numTotalInstances) / numInstances;
Normalize_DivideFirst(values, numTotalInstances, numInstances) ==
  U64MulSmall(U64DivSmall(SumInstances(values, numInstances), numInstances),
              numTotalInstances)

Normalize_SumOnly(values, numTotalInstances, numInstances) ==
  SumInstances(values, numInstances)

Normalize(values, numTotalInstances, numInstances) ==
  U64DivSmall(U64MulSmall(SumInstances(values, numInstances),
                          numTotalInstances),
              numInstances)

(***************************************************************************)
(* The device's counter catalogue, as the code sees it through CUPTI.      *)
(* Events 1 ("A") and 2 ("B") live in domain 1, event 3 in domain 2.       *)
(* Metric 1 is computed from event 3, metric 2 from events 2 and 3.        *)
(***************************************************************************)
EventIds == {1, 2, 3}

\* the events a caller may ask for by name
RequestableEvents == {1, 2}

MetricIds == {1, 2}

EventDomain(e) == IF e \in {1, 2} THEN 1 ELSE 2

MetricEvents(m) == IF m = 1 THEN {3} ELSE {2, 3}

\* CUPTI_EVENT_GROUP_ATTR_INSTANCE_COUNT of a group of domain d
DomainInstanceCount(d) == IF d = 1 THEN 2 ELSE 1

\* CUPTI_EVENT_DOMAIN_ATTR_TOTAL_INSTANCE_COUNT of domain d
DomainTotalInstanceCount(d) == IF d = 1 THEN 4 ELSE 2

\* The raw values one cuptiEventGroupReadEvent may deliver for n instances.
ReadChoices(n) ==
  { [k \in 1..n |-> U64(10 * k)], [k \in 1..n |-> U64(7)] }

\* What a read of unwritten or out-of-bounds memory may deliver: an id and a
\* value.
Garbage == { <<0, U64(0)>>, <<1, U64(48879)>> }

\* The sequences without repetition over the set S (every length).
RECURSIVE DistinctSeqs(_)
DistinctSeqs(S) ==
  IF S = {} THEN {<<>>}
  ELSE {<<>>} \cup
       UNION { { <<x>> \o q : q \in DistinctSeqs(S \ {x}) } : x \in S }

RECURSIVE AscendingSeq(_)
AscendingSeq(S) ==
  IF S = {} THEN <<>>
  ELSE LET x == CHOOSE y \in S : \A z \in S : y <= z
       IN  <<x>> \o AscendingSeq(S \ {x})

Last(q) == q[Len(q)]

Front(q) == SubSeq(q, 1, Len(q) - 1)

(***************************************************************************)
(* An event group set collection (CUpti_EventGroupSets): a sequence of     *)
(* sets (one per pass), each a sequence of groups, each group a sequence   *)
(* of event ids of one domain.  CUPTI decides the partition; the model     *)
(* lets it be any split of the ids, in ascending order, into passes and    *)
(* groups that keeps every group inside one domain.                        *)
(***************************************************************************)
RECURSIVE SplitsOf(_)
SplitsOf(q) ==
  IF Len(q) = 0 THEN {<<>>}
  ELSE IF Len(q) = 1 THEN { << << <<q[1]>> >> >> }
  ELSE LET e == Last(q)
           prev == SplitsOf(Front(q))
       IN  UNION {
             LET lastSet == Last(p)
                 lastGroup == Last(lastSet)
             IN  \* e opens a new pass
                 { Append(p, << <<e>> >>) }
                 \cup \* e opens a new group of the last pass
                 { Append(Front(p), Append(lastSet, <<e>>)) }
                 \cup \* e joins the last group (same domain only)
                 ( IF EventDomain(Last(lastGroup)) = EventDomain(e)
                   THEN { Append(Front(p),
                                 Append(Front(lastSet), Append(lastGroup, e))) }
                   ELSE {} )
             : p \in prev }

\* A group handle (CUpti_EventGroup): which collection, which set, which group.
GroupHandle(kind, s, g) == <<kind, s, g>>

WithHandles(kind, split) ==
  [s \in 1..Len(split) |->
     [g \in 1..Len(split[s]) |->
        [handle |-> GroupHandle(kind, s, g),
         events |-> split[s][g],
         domain |-> EventDomain(split[s][g][1])]]]

\* cuptiMetricCreateEventGroupSets(context, metric_ids): the possible results
RECURSIVE EventsOfMetrics(_)
EventsOfMetrics(ids) ==
  IF Len(ids) = 0 THEN {}
  ELSE MetricEvents(ids[1]) \cup EventsOfMetrics(Tail(ids))

cuptiMetricCreateEventGroupSets(metric_ids) ==
  { WithHandles("metric", sp) :
      sp \in SplitsOf(AscendingSeq(EventsOfMetrics(metric_ids))) }

\* cuptiEventGroupSetsCreate(context, event_ids): the possible results
cuptiEventGroupSetsCreate(event_ids) ==
  { WithHandles("event", sp) :
      sp \in SplitsOf(AscendingSeq({event_ids[i] : i \in 1..Len(event_ids)})) }

\* CUPTI_EVENT_GROUP_ATTR_NUM_EVENTS
GroupNumEvents(group) == Len(group.events)

\* CUPTI_EVENT_GROUP_ATTR_INSTANCE_COUNT
GroupInstanceCount(group) == DomainInstanceCount(group.domain)

\* cuptiMetricGetValue(device, metric, ids, values): the catalogue's
\* computation is outside the repository; its result is kept as the term
\* of what it was called with.
cuptiMetricGetValue(metric, ids, values) ==
  [metric |-> metric, ids |-> ids, values |-> values]

(***************************************************************************)
(* Bounds of the model.                                                    *)
(***************************************************************************)
\* kernel launches the driver makes beyond get_passes()
MaxExtraLaunches == 1

\* calls of stop() the driver makes
MaxStops == 2

\* profiler objects the process constructs, one after the other
MaxProfilers == 2

(***************************************************************************)
(* State.                                                                  *)
(***************************************************************************)
VARIABLES
  pc,                  \* where the process is: "start", "idle", a place in
                       \* the callback, or "exited" / "aborted" / "crashed"
  site,                \* cbInfo->callbackSite of the running callback
  grp,                 \* the callback's loop variable i (1-based)
  evt,                 \* the callback's loop variable j (1-based)
  ndebug,              \* whether the build defines NDEBUG
  m_event_id,          \* the requested event ids, in request order
  m_metric_id,         \* the requested metric ids, in request order
  m_metric_pass_data,  \* the sets cuptiMetricCreateEventGroupSets returned
  m_event_pass_data,   \* the sets cuptiEventGroupSetsCreate returned
  m_metric_passes,
  m_event_passes,
  m_data,              \* std::vector<pass_data_t>
  current_pass,        \* the callback's static cursor (0-based)
  enabled,             \* the group handles CUPTI holds enabled
  subscribed,          \* whether the callback is subscribed
  m_events,
  m_metrics,
  launches,            \* kernel launches made so far
  stops,               \* calls of stop() made so far
  failed,              \* the call that made CUPTI_CALL exit, or "none"
  raw,                 \* history: per pass, the raw values read, in order
  exited_passes,       \* history: the passes whose exit boundary completed
  trace,               \* history: the calls the running callback made so
                       \* far (of the last one, between callbacks)
  metric_calls,        \* history: the cuptiMetricGetValue calls of stop()
  missed,              \* history: requested events stop() did not find
  profilers,           \* the profiler objects the process has made so far
  born_at,             \* history: the cursor when this profiler was made
  norm_in,             \* the normalization on its own: its inputs
  norm_out             \* the normalization on its own: <<its result>>

\* what no member function and no callback of a profiler changes
fixedVars == <<ndebug, norm_in, norm_out, profilers, born_at>>

planVars == <<fixedVars, m_event_id, m_metric_id, m_metric_pass_data,
              m_event_pass_data, m_metric_passes, m_event_passes>>

cbVars == <<site, grp, evt>>

resultVars == <<m_events, m_metrics, metric_calls, missed, stops, subscribed>>

histVars == <<raw, exited_passes, trace>>

vars == <<pc, planVars, cbVars, resultVars, histVars, m_data, current_pass,
          enabled, launches, failed>>

\* get_passes()
get_passes == m_metric_passes + m_event_passes

InitProfiler ==
  /\ pc = "start"
  /\ site = "none"
  /\ grp = 0
  /\ evt = 0
  /\ ndebug \in BOOLEAN
  /\ m_event_id = <<>>
  /\ m_metric_id = <<>>
  /\ m_metric_pass_data = <<>>
  /\ m_event_pass_data = <<>>
  /\ m_metric_passes = 0
  /\ m_event_passes = 0
  /\ m_data = <<>>
  /\ current_pass = 0
  /\ enabled = {}
  /\ subscribed = FALSE
  /\ m_events = <<>>
  /\ m_metrics = <<>>
  /\ launches = 0
  /\ stops = 0
  /\ failed = "none"
  /\ raw = <<>>
  /\ exited_passes = {}
  /\ trace = <<>>
  /\ metric_calls = <<>>
  /\ missed = {}
  /\ profilers = 1
  /\ born_at = 0

Init ==
  /\ InitProfiler
  /\ norm_in = <<>>
  /\ norm_out = <<>>

(***************************************************************************)
(* profiler::profiler                                                      *)
(***************************************************************************)
\* total_events of one set: the sum of its groups' NUM_EVENTS attribute
RECURSIVE SetNumEvents(_, _)
SetNumEvents(set, j) ==
  IF j = 0 THEN 0
  ELSE SetNumEvents(set, j - 1) + GroupNumEvents(set[j])

PlanNumEvents_SkipsLastGroup(set) == SetNumEvents(set, Len(set) - 1)

PlanNumEvents(set) == SetNumEvents(set, Len(set))

\* numSets of a partition; a partition that was not requested counts 0
PassesOf_AtMostOne(requested, sets) ==
  IF requested > 0 /\ Len(sets) > 0 THEN 1 ELSE 0

PassesOf(requested, sets) == IF requested > 0 THEN Len(sets) ELSE 0

\* m_data after the two planning loops
PlannedData_Swapped(metric_sets, metric_passes, event_sets, event_passes) ==
  [i \in 1..(metric_passes + event_passes) |->
     LET set == IF i <= event_passes THEN event_sets[i]
                ELSE metric_sets[i - event_passes]
     IN  [total_passes |-> metric_passes + event_passes,
          num_events   |-> PlanNumEvents(set),
          event_groups |-> set,
          event_ids    |-> <<>>,
          event_values |-> <<>>]]

PlannedData(metric_sets, metric_passes, event_sets, event_passes) ==
  [i \in 1..(metric_passes + event_passes) |->
     LET set == IF i <= metric_passes THEN metric_sets[i]
                ELSE event_sets[i - metric_passes]
     IN  [total_passes |-> metric_passes + event_passes,
          num_events   |-> PlanNumEvents(set),
          event_groups |-> set,
          event_ids    |-> <<>>,
          event_values |-> <<>>]]

\* The constructor runs to its end.
Construct ==
  /\ pc = "start"
  /\ \E events \in DistinctSeqs(RequestableEvents),
        metrics \in DistinctSeqs(MetricIds) :
       \E msets \in cuptiMetricCreateEventGroupSets(metrics),
          esets \in cuptiEventGroupSetsCreate(events) :
         LET mp == PassesOf(Len(metrics), msets)
             ep == PassesOf(Len(events), esets)
         IN  /\ (mp + ep > 0) \/ ndebug      \* assert((mp + ep) > 0)
             /\ m_event_id' = events
             /\ m_metric_id' = metrics
             /\ m_metric_pass_data' = msets
             /\ m_event_pass_data' = esets
             /\ m_metric_passes' = mp
             /\ m_event_passes' = ep
             /\ m_data' = PlannedData(msets, mp, esets, ep)
             /\ raw' = [i \in 1..(mp + ep) |-> <<>>]
  /\ subscribed' = TRUE
  /\ pc' = "idle"
  /\ UNCHANGED <<fixedVars, cbVars, m_events, m_metrics, metric_calls, missed,
                 stops, exited_passes, trace, current_pass, enabled,
                 launches, failed>>

\* assert((m_metric_passes + m_event_passes) > 0) fails: abort().  Only an
\* empty request plans no pass, and only a build without NDEBUG asserts.
ConstructAsserts ==
  /\ pc = "start"
  /\ ~ndebug
  /\ pc' = "aborted"
  /\ failed' = "assert"
  /\ UNCHANGED <<planVars, cbVars, resultVars, histVars, m_data,
                 current_pass, enabled, launches>>

\* A driver or CUPTI call of the constructor fails: exit.
ConstructFails ==
  /\ pc = "start"
  /\ pc' = "exited"
  /\ failed' = "constructor"
  /\ UNCHANGED <<planVars, cbVars, resultVars, histVars, m_data,
                 current_pass, enabled, launches>>

(***************************************************************************)
(* The driver: a kernel launch.  CUPTI calls get_value_callback at the     *)
(* launch's entry and again at its exit, while the callback is subscribed. *)
(***************************************************************************)
MaxLaunches == get_passes + MaxExtraLaunches

Launch ==
  /\ pc = "idle"
  /\ subscribed
  /\ launches < MaxLaunches
  /\ launches' = launches + 1
  /\ site' = "ENTER"
  /\ pc' = "callback"
  /\ UNCHANGED <<planVars, grp, evt, resultVars, histVars, m_data,
                 current_pass, enabled, failed>>

\* After stop() unsubscribed the callback a launch reaches no code of the
\* profiler: nothing of its state changes.
LaunchUnsubscribed ==
  /\ pc = "idle"
  /\ ~subscribed
  /\ UNCHANGED vars

(***************************************************************************)
(* detail::get_value_callback                                              *)
(***************************************************************************)
\* CUPTI_CALL: the places of the callback where a CUPTI call is made
CuptiCallSites ==
  {"set_mode", "set_attr", "enable", "get_domain", "get_total_instances",
   "get_instances", "get_num_events", "get_events", "read_event",
   "get_name", "disable"}

\* where control goes when the callback returns
AfterReturn(s) == IF s = "ENTER" THEN "callback" ELSE "idle"

SiteAfterReturn(s) == IF s = "ENTER" THEN "EXIT" ELSE "none"

\* if(current_pass >= pass_data->total_passes) return;
\* pass_data = &(*pass_vector)[current_pass];
\* The index (1-based) of the pass the callback works on, 0 when it returns.
CallbackPass_Wraps(cp, pass_vector) ==
  (cp % pass_vector[1].total_passes) + 1

CallbackPass(cp, pass_vector) ==
  IF cp >= pass_vector[1].total_passes THEN 0 ELSE cp + 1

\* the pass at the cursor, for the steps after the dispatch
pass_data == m_data[CallbackPass(current_pass, m_data)]

NumEventGroups == Len(pass_data.event_groups)

Group == pass_data.event_groups[grp]

Return ==
  /\ pc' = AfterReturn(site)
  /\ site' = SiteAfterReturn(site)
  /\ grp' = 0
  /\ evt' = 0

\* history: the callback made the call `name` for group g, event e
Logged(name, g, e) == trace' = Append(trace, <<name, g, e>>)

\* Lines 100-109: the dispatch.
CallbackDispatch ==
  /\ pc = "callback"
  /\ Len(m_data) > 0
  /\ trace' = <<>>
  /\ IF CallbackPass(current_pass, m_data) = 0
     THEN Return
     ELSE /\ pc' = IF site = "ENTER" THEN "enter_sync" ELSE "exit_sync"
          /\ UNCHANGED cbVars
  /\ UNCHANGED <<planVars, resultVars, raw, exited_passes, m_data,
                 current_pass, enabled, launches, failed>>

\* Lines 103-104 on an empty pass vector: (*pass_vector)[0] is read out of
\* bounds.  The read faults, or it delivers a total_passes that makes the
\* callback return; a larger one sends the callback through a wild
\* pass_data pointer, which faults as well.
CallbackOnEmptyVector ==
  /\ pc = "callback"
  /\ Len(m_data) = 0
  /\ \/ /\ pc' = "crashed"
        /\ UNCHANGED cbVars
     \/ Return
  /\ UNCHANGED <<planVars, resultVars, histVars, m_data, current_pass,
                 enabled, launches, failed>>

\* CUPTI_CALL(call) with call failing: the message, then exit(-1).
\* Where the process is after the call at `place` failed.
AfterFailedCall_Retries(place) == place

AfterFailedCall(place) == "exited"

CuptiCallFails ==
  /\ pc \in CuptiCallSites
  /\ pc' = AfterFailedCall(pc)
  /\ failed' = pc
  /\ UNCHANGED <<planVars, cbVars, resultVars, histVars, m_data,
                 current_pass, enabled, launches>>

\* ---- entry boundary (CUPTI_API_ENTER), lines 109-125 ----
EnterSync_SkipsCollectionMode ==
  /\ pc = "enter_sync"
  /\ Logged("cudaDeviceSynchronize", 0, 0)
  /\ pc' = "set_attr"
  /\ grp' = 1
  /\ UNCHANGED <<planVars, site, evt, resultVars, raw, exited_passes,
                 m_data, current_pass, enabled, launches, failed>>

EnterSync ==
  /\ pc = "enter_sync"
  /\ Logged("cudaDeviceSynchronize", 0, 0)
  /\ pc' = "set_mode"
  /\ UNCHANGED <<planVars, cbVars, resultVars, raw, exited_passes,
                 m_data, current_pass, enabled, launches, failed>>

SetCollectionMode ==
  /\ pc = "set_mode"
  /\ Logged("cuptiSetEventCollectionMode", 0, 0)
  /\ IF NumEventGroups > 0
     THEN /\ pc' = "set_attr"
          /\ grp' = 1
          /\ UNCHANGED <<site, evt>>
     ELSE Return
  /\ UNCHANGED <<planVars, resultVars, raw, exited_passes, m_data,
                 current_pass, enabled, launches, failed>>

SetAttribute ==
  /\ pc = "set_attr"
  /\ Logged("cuptiEventGroupSetAttribute", grp, 0)
  /\ pc' = "enable"
  /\ UNCHANGED <<planVars, cbVars, resultVars, raw, exited_passes,
                 m_data, current_pass, enabled, launches, failed>>

EnableGroup ==
  /\ pc = "enable"
  /\ Logged("cuptiEventGroupEnable", grp, 0)
  /\ enabled' = enabled \cup {Group.handle}
  /\ IF grp < NumEventGroups
     THEN /\ grp' = grp + 1
          /\ pc' = "set_attr"
          /\ UNCHANGED <<site, evt>>
     ELSE Return
  /\ UNCHANGED <<planVars, resultVars, raw, exited_passes, m_data, current_pass,
                 launches, failed>>

\* ---- exit boundary (CUPTI_API_EXIT), lines 126-218 ----
ExitSync ==
  /\ pc = "exit_sync"
  /\ Logged("cudaDeviceSynchronize", 0, 0)
  /\ IF NumEventGroups > 0
     THEN /\ pc' = "get_domain"
          /\ grp' = 1
          /\ UNCHANGED <<site, evt>>
     ELSE /\ pc' = "advance"
          /\ UNCHANGED cbVars
  /\ UNCHANGED <<planVars, resultVars, raw, exited_passes, m_data,
                 current_pass, enabled, launches, failed>>

\* the four attribute queries before the event id list, one CUPTI call each
AttributeQueryNext(place) ==
  CASE place = "get_domain" -> "get_total_instances"
    [] place = "get_total_instances" -> "get_instances"
    [] place = "get_instances" -> "get_num_events"
    [] place = "get_num_events" -> "get_events"

AttributeQuery ==
  /\ pc \in {"get_domain", "get_total_instances", "get_instances",
             "get_num_events"}
  /\ Logged("cuptiEventGroupGetAttribute", grp, 0)
  /\ pc' = AttributeQueryNext(pc)
  /\ UNCHANGED <<planVars, cbVars, resultVars, raw, exited_passes,
                 m_data, current_pass, enabled, launches, failed>>

\* control after the last event of group grp: the next group, or the
\* disable loop
AfterGroup_DisablesAtOnce ==
  /\ pc' = "disable"
  /\ grp' = 1
  /\ evt' = 0
  /\ UNCHANGED site

AfterGroup ==
  IF grp < NumEventGroups
  THEN /\ pc' = "get_domain"
       /\ grp' = grp + 1
       /\ evt' = 0
       /\ UNCHANGED site
  ELSE /\ pc' = "disable"
       /\ grp' = 1
       /\ evt' = 0
       /\ UNCHANGED site

GetEvents ==
  /\ pc = "get_events"
  /\ Logged("cuptiEventGroupGetAttribute", grp, 0)
  /\ IF GroupNumEvents(Group) > 0
     THEN /\ pc' = "read_event"
          /\ evt' = 1
          /\ UNCHANGED <<site, grp>>
     ELSE AfterGroup
  /\ UNCHANGED <<planVars, resultVars, raw, exited_passes, m_data,
                 current_pass, enabled, launches, failed>>

\* pass_data->event_ids.push_back(eventIds[j]);
\* pass_data->event_values.push_back(normalized);
Capture_KeepsLatestOnly(pd, id, normalized) ==
  [pd EXCEPT !.event_ids = <<id>>, !.event_values = <<normalized>>]

Capture(pd, id, normalized) ==
  [pd EXCEPT !.event_ids = Append(@, id),
             !.event_values = Append(@, normalized)]

\* Lines 164-182: read the event's instances, sum, normalize, record.
ReadEvent ==
  /\ pc = "read_event"
  /\ \E values \in ReadChoices(GroupInstanceCount(Group)) :
       LET p == CallbackPass(current_pass, m_data)
           id == Group.events[evt]
           normalized == Normalize(values,
                                   DomainTotalInstanceCount(Group.domain),
                                   GroupInstanceCount(Group))
       IN  /\ m_data' = [m_data EXCEPT ![p] = Capture(@, id, normalized)]
           /\ raw' = [raw EXCEPT ![p] =
                        Append(@, [event |-> id, values |-> values])]
  /\ Logged("cuptiEventGroupReadEvent", grp, evt)
  /\ pc' = "get_name"
  /\ UNCHANGED <<planVars, cbVars, resultVars, exited_passes, current_pass,
                 enabled, launches, failed>>

\* Lines 188-189: the event's name, for the log.
GetEventName ==
  /\ pc = "get_name"
  /\ Logged("cuptiEventGetAttribute", grp, evt)
  /\ IF evt < GroupNumEvents(Group)
     THEN /\ pc' = "read_event"
          /\ evt' = evt + 1
          /\ UNCHANGED <<site, grp>>
     ELSE AfterGroup
  /\ UNCHANGED <<planVars, resultVars, raw, exited_passes, m_data,
                 current_pass, enabled, launches, failed>>

\* Lines 211-215: the disable loop.
DisableGroup_LeavesEnabled ==
  /\ pc = "disable"
  /\ Logged("cuptiEventGroupDisable", grp, 0)
  /\ IF grp < NumEventGroups
     THEN /\ grp' = grp + 1
          /\ UNCHANGED <<pc, site, evt>>
     ELSE /\ pc' = "advance"
          /\ UNCHANGED cbVars
  /\ UNCHANGED <<planVars, resultVars, raw, exited_passes, m_data,
                 current_pass, enabled, launches, failed>>

DisableGroup ==
  /\ pc = "disable"
  /\ Logged("cuptiEventGroupDisable", grp, 0)
  /\ enabled' = enabled \ {Group.handle}
  /\ IF grp < NumEventGroups
     THEN /\ grp' = grp + 1
          /\ UNCHANGED <<pc, site, evt>>
     ELSE /\ pc' = "advance"
          /\ UNCHANGED cbVars
  /\ UNCHANGED <<planVars, resultVars, raw, exited_passes, m_data, current_pass,
                 launches, failed>>

\* ++current_pass;
NextPass_SkipsOne(cp) == cp + 2

NextPass(cp) == cp + 1

\* line 216, and the callback returns
Advance ==
  /\ pc = "advance"
  /\ current_pass' = NextPass(current_pass)
  /\ Logged("++current_pass", 0, 0)
  /\ exited_passes' = exited_passes \cup {CallbackPass(current_pass, m_data)}
  /\ Return
  /\ UNCHANGED <<planVars, resultVars, raw, m_data, enabled, launches,
                 failed>>

(***************************************************************************)
(* profiler::stop                                                          *)
(***************************************************************************)
\* running_sum before pass i: the num_events of the passes before it
RECURSIVE RunningSum(_, _)
RunningSum(data, i) ==
  IF i <= 1 THEN 0
  ELSE RunningSum(data, i - 1) + data[i - 1].num_events

\* total_events: the num_events of the metric passes
MetricTotalEvents(data, metric_passes) == RunningSum(data, metric_passes + 1)

\* Lines 405-417: new[] leaves the buffer unwritten; pass i's vector is then
\* copied to offset running_sum.  A slot no copy reaches keeps what new[]
\* left there (unwritten); where two copies overlap the later one stays.
FlatBuffer_NoOffset(data, metric_passes, field, unwritten) ==
  [s \in 1..MetricTotalEvents(data, metric_passes) |->
     LET writers == { i \in 1..metric_passes : s <= Len(data[i][field]) }
     IN  IF writers = {} THEN unwritten
         ELSE LET w == CHOOSE i \in writers : \A k \in writers : k <= i
              IN  data[w][field][s]]

FlatBuffer(data, metric_passes, field, unwritten) ==
  [s \in 1..MetricTotalEvents(data, metric_passes) |->
     LET writers == { i \in 1..metric_passes :
                        /\ RunningSum(data, i) < s
                        /\ s <= RunningSum(data, i) + Len(data[i][field]) }
     IN  IF writers = {} THEN unwritten
         ELSE LET w == CHOOSE i \in writers : \A k \in writers : k <= i
              IN  data[w][field][s - RunningSum(data, w)]]

\* Lines 420-428: one cuptiMetricGetValue per requested metric, in order.
MetricResults_Reversed(metric_ids, ids, values) ==
  [i \in 1..Len(metric_ids) |->
     cuptiMetricGetValue(metric_ids[Len(metric_ids) + 1 - i], ids, values)]

MetricResults(metric_ids, ids, values) ==
  [i \in 1..Len(metric_ids) |->
     cuptiMetricGetValue(metric_ids[i], ids, values)]

\* Lines 435-442: the (id, value) pairs stop() reads from the event passes,
\* in the order it reads them.  It reads num_events entries of each pass's
\* vectors; an entry past the vector's end is read out of bounds.
RECURSIVE MapWrites(_, _, _, _, _)
MapWrites(data, first, last, gid, gval) ==
  IF last < first THEN <<>>
  ELSE MapWrites(data, first, last - 1, gid, gval) \o
       [j \in 1..data[last].num_events |->
          IF j <= Len(data[last].event_ids)
          THEN <<data[last].event_ids[j], data[last].event_values[j]>>
          ELSE <<gid, gval>>]

\* whether that loop reads out of bounds
ReadsOutOfBounds(data, first, last) ==
  \E i \in first..last : Len(data[i].event_ids) < data[i].num_events

\* std::map<CUpti_EventID, uint64_t> after the writes: the last write of a
\* key stays
EventMap(writes) ==
  [id \in {writes[k][1] : k \in 1..Len(writes)} |->
     LET k == CHOOSE k \in 1..Len(writes) :
                /\ writes[k][1] = id
                /\ \A l \in (k + 1)..Len(writes) : writes[l][1] # id
     IN  writes[k][2]]

\* event_map[id]: operator[] inserts a value-initialised uint64_t (0) for a
\* key the map does not hold, and returns it
MapLookup(event_map, id) ==
  IF id \in DOMAIN event_map THEN event_map[id] ELSE U64(0)

\* Lines 444-446: m_events.push_back(event_map[m_event_id[i]]) for each i
EventValues_InCaptureOrder(writes, event_ids) ==
  [i \in 1..Len(event_ids) |->
     IF i <= Len(writes) THEN writes[i][2] ELSE U64(0)]

EventValues(writes, event_ids) ==
  [i \in 1..Len(event_ids) |-> MapLookup(EventMap(writes), event_ids[i])]

\* the first pass stop() reads into the map (1-based)
FirstEventPass == m_metric_passes + 1

StopMetricIds(gid) == FlatBuffer(m_data, m_metric_passes, "event_ids", gid)

StopMetricValues(gval) ==
  FlatBuffer(m_data, m_metric_passes, "event_values", gval)

StopWrites(gid, gval) ==
  MapWrites(m_data, FirstEventPass, get_passes, gid, gval)

\* everything stop() computes before cuptiUnsubscribe
StopComputes(gid, gval) ==
  LET results == MetricResults(m_metric_id, StopMetricIds(gid),
                               StopMetricValues(gval))
      writes == StopWrites(gid, gval)
  IN  /\ m_metrics' = m_metrics \o results
      /\ metric_calls' = results
      /\ m_events' = m_events \o EventValues(writes, m_event_id)
      /\ missed' = { i \in 1..Len(m_event_id) :
                       m_event_id[i] \notin DOMAIN EventMap(writes) }
      /\ stops' = stops + 1

\* stop() runs to its end.
Stop ==
  /\ pc = "idle"
  /\ stops < MaxStops
  /\ \E g \in Garbage : StopComputes(g[1], g[2])
  /\ subscribed' = FALSE
  /\ UNCHANGED <<pc, planVars, cbVars, histVars, m_data, current_pass,
                 enabled, launches, failed>>

\* CUPTI_CALL(cuptiMetricGetValue(...)) fails for the k-th metric: exit.
StopMetricValueFails ==
  /\ pc = "idle"
  /\ stops < MaxStops
  /\ \E k \in 1..Len(m_metric_id), g \in Garbage :
       LET results == MetricResults(m_metric_id, StopMetricIds(g[1]),
                                    StopMetricValues(g[2]))
       IN  /\ m_metrics' = m_metrics \o SubSeq(results, 1, k - 1)
           /\ metric_calls' = SubSeq(results, 1, k)
  /\ stops' = stops + 1
  /\ pc' = "exited"
  /\ failed' = "metric_value"
  /\ UNCHANGED <<planVars, cbVars, histVars, m_data, current_pass, enabled,
                 launches, m_events, missed, subscribed>>

\* The map loop reads a vector out of bounds and the read faults.
StopCrashes ==
  /\ pc = "idle"
  /\ stops < MaxStops
  /\ ReadsOutOfBounds(m_data, FirstEventPass, get_passes)
  /\ \E g \in Garbage :
       LET results == MetricResults(m_metric_id, StopMetricIds(g[1]),
                                    StopMetricValues(g[2]))
       IN  /\ m_metrics' = m_metrics \o results
           /\ metric_calls' = results
  /\ stops' = stops + 1
  /\ pc' = "crashed"
  /\ UNCHANGED <<planVars, cbVars, histVars, m_data, current_pass, enabled,
                 launches, failed, m_events, missed, subscribed>>

\* CUPTI_CALL(cuptiUnsubscribe(m_subscriber)) fails: exit.
StopUnsubscribeFails ==
  /\ pc = "idle"
  /\ stops < MaxStops
  /\ \E g \in Garbage : StopComputes(g[1], g[2])
  /\ pc' = "exited"
  /\ failed' = "unsubscribe"
  /\ UNCHANGED <<planVars, cbVars, histVars, m_data, current_pass, enabled,
                 launches, subscribed>>

(***************************************************************************)
(* The readers of the results.                                             *)
(***************************************************************************)
\* get_event_values(): a copy of m_events (an empty vector when no event
\* was requested) goes to the caller.
GetEventValues ==
  /\ pc = "idle"
  /\ UNCHANGED vars

\* get_metric_values(): likewise for m_metrics.
GetMetricValues ==
  /\ pc = "idle"
  /\ UNCHANGED vars

\* print_event_values reads m_events[i] for every i < m_num_events.  Before
\* stop() filled the vector the reads are out of bounds: they fault, or
\* they deliver something to print.
PrintEventValues ==
  /\ pc = "idle"
  /\ \/ UNCHANGED vars
     \/ /\ Len(m_events) < Len(m_event_id)
        /\ pc' = "crashed"
        /\ UNCHANGED <<planVars, cbVars, resultVars, histVars, m_data,
                       current_pass, enabled, launches, failed>>

\* print_metric_values reads m_metrics[i] for every i < m_num_metrics.
PrintMetricValues ==
  /\ pc = "idle"
  /\ \/ UNCHANGED vars
     \/ /\ Len(m_metrics) < Len(m_metric_id)
        /\ pc' = "crashed"
        /\ UNCHANGED <<planVars, cbVars, resultVars, histVars, m_data,
                       current_pass, enabled, launches, failed>>

Next ==
  \/ Construct
  \/ ConstructAsserts
  \/ ConstructFails
  \/ Launch
  \/ LaunchUnsubscribed
  \/ CallbackDispatch
  \/ CallbackOnEmptyVector
  \/ CuptiCallFails
  \/ EnterSync
  \/ SetCollectionMode
  \/ SetAttribute
  \/ EnableGroup
  \/ ExitSync
  \/ AttributeQuery
  \/ GetEvents
  \/ ReadEvent
  \/ GetEventName
  \/ DisableGroup
  \/ Advance
  \/ Stop
  \/ StopMetricValueFails
  \/ StopCrashes
  \/ StopUnsubscribeFails
  \/ GetEventValues
  \/ GetMetricValues
  \/ PrintEventValues
  \/ PrintMetricValues

Spec == Init /\ [][Next]_vars

(***************************************************************************)
(* A process that makes one profiler after the other: when stop() has      *)
(* ended a profiler's session the program constructs the next object.      *)
(* get_value_callback's static current_pass (line 91) is initialised once  *)
(* per process; a new object has new members and the old cursor.           *)
(***************************************************************************)
\* the cursor a newly made profiler's callbacks start from
CursorOfNewProfiler_Reset(cp) == 0

CursorOfNewProfiler(cp) == cp

NewProfiler ==
  /\ pc = "idle"
  /\ ~subscribed
  /\ profilers < MaxProfilers
  /\ profilers' = profilers + 1
  /\ current_pass' = CursorOfNewProfiler(current_pass)
  /\ born_at' = current_pass'
  /\ pc' = "start"
  /\ m_event_id' = <<>>
  /\ m_metric_id' = <<>>
  /\ m_metric_pass_data' = <<>>
  /\ m_event_pass_data' = <<>>
  /\ m_metric_passes' = 0
  /\ m_event_passes' = 0
  /\ m_data' = <<>>
  /\ m_events' = <<>>
  /\ m_metrics' = <<>>
  /\ launches' = 0
  /\ stops' = 0
  /\ raw' = <<>>
  /\ exited_passes' = {}
  /\ trace' = <<>>
  /\ metric_calls' = <<>>
  /\ missed' = {}
  /\ UNCHANGED <<ndebug, norm_in, norm_out, cbVars, subscribed, enabled,
                 failed>>

NextProcess ==
  \/ Next
  \/ NewProfiler

SpecProcess == Init /\ [][NextProcess]_vars

(***************************************************************************)
(* The normalization of lines 172-182 on its own: the inputs are drawn     *)
(* from the whole uint64_t range, the one action applies the code.         *)
(***************************************************************************)
\* the most instances a group has here
MaxInstances == 4

TotalInstanceChoices == {1, 2, 4, 8}

\* 2^63
U64HighBit == <<0, 0, 0, LimbBase \div 2>>

RawSamples == {U64(2), U64(3), U64(10), U64(20), U64(25), U64HighBit}

InitNorm ==
  /\ InitProfiler
  /\ ndebug = FALSE
  /\ \E n \in 0..MaxInstances :
       norm_in \in [values : [1..n -> RawSamples],
                    numTotalInstances : TotalInstanceChoices,
                    numInstances : {n}]
  /\ norm_out = <<>>

\* Lines 172-182 for one event.  With numInstances = 0 the loop adds
\* nothing and line 179 divides by zero: the division traps, or it
\* delivers some value, which is recorded like any other.
ApplyNormalize ==
  /\ pc = "start"
  /\ norm_out = <<>>
  /\ IF norm_in.numInstances = 0
     THEN \/ /\ pc' = "crashed"
             /\ UNCHANGED norm_out
          \/ /\ \E g \in Garbage : norm_out' = << g[2] >>
             /\ UNCHANGED pc
     ELSE /\ norm_out' = << Normalize(norm_in.values,
                                      norm_in.numTotalInstances,
                                      norm_in.numInstances) >>
          /\ UNCHANGED pc
  /\ UNCHANGED <<ndebug, norm_in, profilers, born_at, m_event_id,
                 m_metric_id, m_metric_pass_data, m_event_pass_data,
                 m_metric_passes, m_event_passes, cbVars, resultVars,
                 histVars, m_data, current_pass, enabled, launches, failed>>

NextNorm == ApplyNormalize

SpecNorm == InitNorm /\ [][NextNorm]_vars

(***************************************************************************)
(* Properties.                                                             *)
(***************************************************************************)

\* ---- arithmetic on the naturals, for stating values without a width ----
\* A natural below 2^96 as six 16-bit limbs, least significant first.
WideLimbs == 96 \div 16

Wide(a) == <<a[1], a[2], a[3], a[4], 0, 0>>

Low64(w) == <<w[1], w[2], w[3], w[4]>>

Fits64(w) == \A i \in (U64Limbs + 1)..WideLimbs : w[i] = 0

WideAdd(a, b) ==
  LET s1 == a[1] + b[1]
      s2 == a[2] + b[2] + (s1 \div LimbBase)
      s3 == a[3] + b[3] + (s2 \div LimbBase)
      s4 == a[4] + b[4] + (s3 \div LimbBase)
      s5 == a[5] + b[5] + (s4 \div LimbBase)
      s6 == a[6] + b[6] + (s5 \div LimbBase)
  IN  <<s1 % LimbBase, s2 % LimbBase, s3 % LimbBase, s4 % LimbBase,
        s5 % LimbBase, s6 % LimbBase>>

WideMul(a, t) ==
  LET p1 == a[1] * t
      p2 == a[2] * t + (p1 \div LimbBase)
      p3 == a[3] * t + (p2 \div LimbBase)
      p4 == a[4] * t + (p3 \div LimbBase)
      p5 == a[5] * t + (p4 \div LimbBase)
      p6 == a[6] * t + (p5 \div LimbBase)
  IN  <<p1 % LimbBase, p2 % LimbBase, p3 % LimbBase, p4 % LimbBase,
        p5 % LimbBase, p6 % LimbBase>>

WideDiv(a, n) ==
  LET d6 == a[6]
      d5 == (d6 % n) * LimbBase + a[5]
      d4 == (d5 % n) * LimbBase + a[4]
      d3 == (d4 % n) * LimbBase + a[3]
      d2 == (d3 % n) * LimbBase + a[2]
      d1 == (d2 % n) * LimbBase + a[1]
  IN  <<d1 \div n, d2 \div n, d3 \div n, d4 \div n, d5 \div n, d6 \div n>>

RECURSIVE ExactSum(_)
ExactSum(values) ==
  IF Len(values) = 0 THEN Wide(U64(0))
  ELSE WideAdd(Wide(values[1]), ExactSum(Tail(values)))

\* floor((v_1 + ... + v_n) * T / n) over the naturals
ExactFloor(in) ==
  WideDiv(WideMul(ExactSum(in.values), in.numTotalInstances),
          in.numInstances)

\* floor((((v_1 + ... + v_n) mod 2^64) * T mod 2^64) / n)
WrappedFloor(in) ==
  Low64(WideDiv(Wide(Low64(WideMul(Wide(Low64(ExactSum(in.values))),
                                   in.numTotalInstances))),
                in.numInstances))

Normalized == norm_out[1]

\* C4 (as stated): the recorded value is floor((v_1+...+v_n) * T / n) of the
\* naturals, for every choice of 64-bit values.
C4_ExactFloor ==
  (norm_out # <<>> /\ norm_in.numInstances > 0) =>
    Wide(Normalized) = ExactFloor(norm_in)

\* C4 (amended): the recorded value is floor(((sum mod 2^64) * T mod 2^64) / n):
\* the sum and the product wrap at 64 bits.  Whenever (v_1+...+v_n) * T is
\* below 2^64 it is floor((v_1+...+v_n) * T / n); n=1,T=1 gives the value
\* itself, n=4,T=8,sum=100 gives 200, and sum=7,n=3,T=2 gives 4.
C4_NormalizeWrapsAt64Bits ==
  (norm_out # <<>> /\ norm_in.numInstances > 0) =>
    /\ IsU64(Normalized)
    /\ Normalized = WrappedFloor(norm_in)
    /\ Fits64(WideMul(ExactSum(norm_in.values), norm_in.numTotalInstances))
         => Wide(Normalized) = ExactFloor(norm_in)
    /\ (norm_in.numInstances = 1 /\ norm_in.numTotalInstances = 1)
         => Normalized = norm_in.values[1]
    /\ ( /\ norm_in.values = <<U64(25), U64(25), U64(25), U64(25)>>
         /\ norm_in.numTotalInstances = 8 )
         => Normalized = U64(200)
    /\ ( /\ norm_in.values = <<U64(3), U64(2), U64(2)>>
         /\ norm_in.numTotalInstances = 2 )
         => Normalized = U64(4)

\* C4 witness: the truncating case sum=7, n=3, T=2 has been normalized to 4.
C4_Witness ==
  /\ norm_out = << U64(4) >>
  /\ norm_in.values = <<U64(3), U64(2), U64(2)>>
  /\ norm_in.numInstances = 3
  /\ norm_in.numTotalInstances = 2

\* ---- the profiler ----
\* the constructor ran to its end: a profiler exists
Constructed == pc # "start" /\ failed \notin {"constructor", "assert"}

\* the first stop() ran to its end
Stopped == stops = 1 /\ pc = "idle"

AllPasses == 1..get_passes

EventPasses == (m_metric_passes + 1)..get_passes

\* a CUPTI call of the callback failed
CallbackFailed == failed \in CuptiCallSites

\* C1: a step taken once the cursor has reached the total pass count changes
\* neither the cursor, nor a pass's buffers, nor the enabled groups; a
\* callback that starts there returns at once.  So the launches beyond
\* get_passes() leave stop() the same m_data to aggregate.
C1_PastLastPassIsNoOp ==
  /\ [][ (Constructed /\ current_pass >= get_passes)
           => UNCHANGED <<current_pass, m_data, enabled, raw>> ]_vars
  /\ [][ (pc = "callback" /\ Len(m_data) > 0 /\ current_pass >= get_passes)
           => pc' \in {"callback", "idle"} ]_vars

\* C1 witness: every pass ran, a further enter/exit pair followed, then stop().
C1_Witness ==
  /\ Stopped
  /\ get_passes >= 1
  /\ current_pass = get_passes
  /\ launches = get_passes + 1
  /\ Len(m_events) >= 1

\* C2: for a request with E+M > 0, get_passes() is the number of sets of the
\* metric partition plus that of the event partition (0 for one not
\* requested), is at least 1, is the size of m_data and is every pass's
\* total_passes.
C2_PassCount ==
  (Constructed /\ Len(m_event_id) + Len(m_metric_id) > 0) =>
    /\ get_passes =
         (IF Len(m_metric_id) > 0 THEN Len(m_metric_pass_data) ELSE 0)
         + (IF Len(m_event_id) > 0 THEN Len(m_event_pass_data) ELSE 0)
    /\ get_passes >= 1
    /\ Len(m_data) = get_passes
    /\ \A i \in 1..Len(m_data) : m_data[i].total_passes = get_passes

\* C2 witness: a profiler with two metric passes and two event passes.
C2_Witness ==
  /\ Constructed
  /\ m_metric_passes = 2
  /\ m_event_passes = 2
  /\ Len(m_data) = 4

\* the events of a set's groups, group after group
RECURSIVE EventsOfSet(_)
EventsOfSet(set) ==
  IF Len(set) = 0 THEN <<>>
  ELSE set[1].events \o EventsOfSet(Tail(set))

\* C3: a pass whose exit boundary has completed holds as many (id, value)
\* pairs as its num_events, which is the number of events of its groups;
\* in every later state too.
C3_CapturedCountIsPlanned ==
  \A k \in exited_passes :
    /\ Len(m_data[k].event_ids) = m_data[k].num_events
    /\ Len(m_data[k].event_values) = m_data[k].num_events
    /\ m_data[k].num_events = Len(EventsOfSet(m_data[k].event_groups))

\* C3 witness: a pass of two groups has completed, and stop() ran after it.
C3_Witness ==
  /\ Stopped
  /\ \E k \in exited_passes :
       /\ Len(m_data[k].event_groups) = 2
       /\ Len(m_data[k].event_ids) = 2

\* the requested event m_event_id[i] was recorded, with value v, by an
\* event-derived pass
RecordedFor(i, v) ==
  \E p \in EventPasses : \E j \in 1..Len(m_data[p].event_ids) :
    /\ m_data[p].event_ids[j] = m_event_id[i]
    /\ m_data[p].event_values[j] = v

\* C5: after stop(), m_events has one entry per requested event and
\* m_metrics one per requested metric; when every pass had completed, the
\* i-th entry of m_events is the value an event-derived pass recorded for
\* the i-th requested event id, and no other value was recorded for it.
C5_EventValuesInRequestOrder ==
  Stopped =>
    /\ Len(m_events) = Len(m_event_id)
    /\ Len(m_metrics) = Len(m_metric_id)
    /\ exited_passes = AllPasses =>
         \A i \in 1..Len(m_event_id) :
           /\ RecordedFor(i, m_events[i])
           /\ \A v \in {m_events[k] : k \in 1..Len(m_events)} :
                RecordedFor(i, v) => v = m_events[i]

\* C5 witness: events were requested as (B, A) and captured as A then B with
\* different values, next to two metrics, and stop() ran after all passes.
C5_Witness ==
  /\ Stopped
  /\ exited_passes = AllPasses
  /\ m_event_id = <<2, 1>>
  /\ Len(m_metric_id) = 2
  /\ m_events[1] # m_events[2]

\* C6 (as stated): a requested event id that stop() does not find in the map
\* makes aggregation fail with EventNotCollected, and no value is put into
\* m_events for it.
C6_AbsentEventFails ==
  \A i \in missed :
    /\ failed = "EventNotCollected"
    /\ Len(m_events) < i

\* C7 (as stated): a profiler that planned no pass never exists when the
\* callback indexes the pass vector.
C7_EmptyRequestRejected ==
  ~(pc = "callback" /\ Len(m_data) = 0)

\* C8: stop() calls cuptiMetricGetValue once per requested metric, in request
\* order, every time with the same buffers, and the i-th entry of m_metrics
\* is the result for the i-th requested metric id.
C8_MetricValuesInRequestOrder ==
  Stopped =>
    /\ Len(metric_calls) = Len(m_metric_id)
    /\ Len(m_metrics) = Len(m_metric_id)
    /\ \A i \in 1..Len(m_metric_id) :
         /\ metric_calls[i].metric = m_metric_id[i]
         /\ metric_calls[i].ids = metric_calls[1].ids
         /\ metric_calls[i].values = metric_calls[1].values
         /\ m_metrics[i].metric = m_metric_id[i]
         /\ m_metrics[i] = cuptiMetricGetValue(m_metric_id[i],
                                               metric_calls[1].ids,
                                               metric_calls[1].values)

\* C8 witness: metrics were requested as (2, 1), every pass completed and
\* stop() computed both values from a buffer of two pairs.
C8_Witness ==
  /\ Stopped
  /\ exited_passes = AllPasses
  /\ m_metric_id = <<2, 1>>
  /\ Len(m_metrics) = 2
  /\ Len(m_metrics[1].ids) = 2

\* C9: a CUPTI call of the callback that fails ends the process at that
\* call: the step changes nothing but the process's position, and no step
\* follows it (no retry, no later group, no cursor advance, no append, no
\* later pass, no stop()).
C9_FailedCallAborts ==
  /\ [][ (CallbackFailed' /\ ~CallbackFailed) =>
           /\ failed' = pc
           /\ pc' = "exited"
           /\ UNCHANGED <<planVars, cbVars, resultVars, histVars, m_data,
                          current_pass, enabled, launches>> ]_vars
  /\ [][ CallbackFailed => UNCHANGED vars ]_vars

\* C9 witness: cuptiEventGroupReadEvent failed for the second event of a
\* pass: one value is recorded, the groups are still enabled, the cursor
\* did not move.
C9_Witness ==
  /\ failed = "read_event"
  /\ pc = "exited"
  /\ current_pass = 0
  /\ Len(m_data[1].event_ids) = 1
  /\ enabled # {}

\* C10: for events = <<"A">>, metrics = <<>> (one pass, one group, one event,
\* two instances, four in the domain) get_passes() is 1, and after one
\* launch that read <<10, 20>> stop() leaves m_events = <<60>>.
C10_EndToEnd ==
  (Constructed /\ m_event_id = <<1>> /\ m_metric_id = <<>>) =>
    /\ get_passes = 1
    /\ Len(m_data[1].event_groups) = 1
    /\ ( /\ Stopped
         /\ exited_passes = {1}
         /\ raw[1] = << [event |-> 1, values |-> <<U64(10), U64(20)>>] >> )
         => m_events = << U64(60) >>

\* C10 witness: that run, stopped after its one launch.
C10_Witness ==
  /\ Stopped
  /\ m_event_id = <<1>>
  /\ m_metric_id = <<>>
  /\ launches = 1
  /\ raw[1] = << [event |-> 1, values |-> <<U64(10), U64(20)>>] >>
  /\ m_events = << U64(60) >>

\* C11: the cursor never decreases; a step changes it only as the last step
\* of an exit-boundary callback that ran with current_pass < get_passes(),
\* and then by exactly one; such a callback never returns without that step;
\* no step of an entry-boundary callback, of a callback at or past
\* get_passes(), or of stop() changes it.
C11_CursorAdvancesByOne ==
  [][ /\ current_pass' >= current_pass
      /\ current_pass' # current_pass =>
           /\ pc = "advance"
           /\ site = "EXIT"
           /\ current_pass < get_passes
           /\ current_pass' = current_pass + 1
      /\ ( /\ site = "EXIT"
           /\ pc \notin {"idle", "callback"}
           /\ pc' = "idle" ) => current_pass' = current_pass + 1
      /\ ( \/ site = "ENTER"
           \/ current_pass >= get_passes
           \/ stops' # stops ) => current_pass' = current_pass ]_vars

\* C11 witness: two passes moved the cursor to 2; a third launch and stop()
\* left it there.
C11_Witness ==
  /\ Stopped
  /\ get_passes = 2
  /\ launches = 3
  /\ exited_passes = {1, 2}
  /\ current_pass = 2

\* whether the sequence `after` is `before` with one element appended
IsAppend(before, after) ==
  /\ Len(after) = Len(before) + 1
  /\ SubSeq(after, 1, Len(before)) = before

\* C12: a step that changes a pass's event_ids or event_values is a step of
\* an exit-boundary callback running with current_pass < get_passes(), the
\* pass is the one at the cursor, and the step appends one id and one value;
\* a pass whose exit boundary has completed is changed by no step, of a
\* callback or of stop(); the vector of passes keeps its size.
C12_AppendOnlyAtCursor ==
  [][ /\ Len(m_data) > 0 => Len(m_data') = Len(m_data)
      /\ \A i \in 1..Len(m_data) :
           ( \/ m_data'[i].event_ids # m_data[i].event_ids
             \/ m_data'[i].event_values # m_data[i].event_values ) =>
             /\ site = "EXIT"
             /\ current_pass < get_passes
             /\ i = current_pass + 1
             /\ i \notin exited_passes
             /\ stops' = stops
             /\ IsAppend(m_data[i].event_ids, m_data'[i].event_ids)
             /\ IsAppend(m_data[i].event_values, m_data'[i].event_values)
      /\ \A i \in exited_passes :
           /\ m_data'[i].event_ids = m_data[i].event_ids
           /\ m_data'[i].event_values = m_data[i].event_values ]_vars

\* C12 witness: the first pass completed with two pairs and still holds
\* them while the second pass, at the cursor, has appended its first pair.
C12_Witness ==
  /\ pc = "get_name"
  /\ current_pass = 1
  /\ exited_passes = {1}
  /\ Len(m_data[1].event_ids) = 2
  /\ Len(m_data[2].event_ids) = 1
  /\ Len(raw[2]) = 1

\* ---- the calls of one callback, read from the trace ----
IsSync(c) == c[1] = "cudaDeviceSynchronize"

IsSetMode(c) == c[1] = "cuptiSetEventCollectionMode"

IsSetAttribute(c) == c[1] = "cuptiEventGroupSetAttribute"

IsEnable(c) == c[1] = "cuptiEventGroupEnable"

IsRead(c) == c[1] = "cuptiEventGroupReadEvent"

IsDisable(c) == c[1] = "cuptiEventGroupDisable"

IsAdvance(c) == c[1] = "++current_pass"

\* the trace is that of an exit-boundary callback that got past the dispatch
ExitTrace ==
  /\ trace # <<>>
  /\ \/ site = "EXIT" /\ pc # "callback"
     \/ site = "none"

\* the trace is that of an entry-boundary callback that got past the dispatch
EntryTrace ==
  /\ trace # <<>>
  /\ \/ site = "ENTER" /\ pc # "callback"
     \/ site = "EXIT" /\ pc = "callback"

Advanced == \E i \in 1..Len(trace) : IsAdvance(trace[i])

\* the pass (1-based) the traced callback works on
TracePass == IF Advanced THEN current_pass ELSE current_pass + 1

TraceGroups == m_data[TracePass].event_groups

\* one read per event of every group from group g on, in the groups' order
RECURSIVE ReadsOfGroups(_, _)
ReadsOfGroups(set, g) ==
  IF g > Len(set) THEN <<>>
  ELSE [e \in 1..Len(set[g].events) |-> <<"cuptiEventGroupReadEvent", g, e>>]
       \o ReadsOfGroups(set, g + 1)

IsPrefix(s, t) == Len(s) <= Len(t) /\ SubSeq(t, 1, Len(s)) = s

HandlesOf(set) == { set[g].handle : g \in 1..Len(set) }

\* C13: in an exit-boundary callback for pass k the first call is the
\* device synchronization; the events are read, and recorded, group after
\* group and event after event; a group is disabled only after every event
\* of every group of the pass has been read; the cursor is incremented only
\* after every group of the pass has been disabled, and nothing follows it.
C13_ExitBoundaryOrder ==
  ExitTrace =>
    LET reads == SelectSeq(trace, IsRead)
        disables == SelectSeq(trace, IsDisable)
    IN  /\ IsSync(trace[1])
        /\ \A i \in 2..Len(trace) : ~IsSync(trace[i])
        /\ IsPrefix(reads, ReadsOfGroups(TraceGroups, 1))
        /\ Len(m_data[TracePass].event_ids) = Len(reads)
        /\ \A i, j \in 1..Len(trace) :
             (IsDisable(trace[i]) /\ IsRead(trace[j])) => j < i
        /\ disables # <<>> => reads = ReadsOfGroups(TraceGroups, 1)
        /\ disables = [g \in 1..Len(disables) |->
                         <<"cuptiEventGroupDisable", g, 0>>]
        /\ \A g \in 1..Len(disables) : TraceGroups[g].handle \notin enabled
        /\ \A i \in 1..Len(trace) : IsAdvance(trace[i]) => i = Len(trace)
        /\ Advanced <=> TracePass \in exited_passes
        /\ Advanced =>
             /\ Len(disables) = Len(TraceGroups)
             /\ HandlesOf(TraceGroups) \cap enabled = {}

\* C13 witness: the exit boundary of a pass of two groups has returned:
\* two reads, then two disables, then the increment.
C13_Witness ==
  /\ ExitTrace
  /\ pc = "idle"
  /\ Advanced
  /\ Len(TraceGroups) = 2
  /\ Len(SelectSeq(trace, IsRead)) = 2
  /\ Len(SelectSeq(trace, IsDisable)) = 2

\* the calls of a whole entry boundary for the groups of `set`
EntryCalls(set) ==
  << <<"cudaDeviceSynchronize", 0, 0>>,
     <<"cuptiSetEventCollectionMode", 0, 0>> >>
  \o [k \in 1..(2 * Len(set)) |->
        IF k % 2 = 1 THEN <<"cuptiEventGroupSetAttribute", (k + 1) \div 2, 0>>
        ELSE <<"cuptiEventGroupEnable", k \div 2, 0>>]

\* C14: the calls of an entry-boundary callback for pass k are, in this
\* order, the device synchronization, the collection mode, and then for
\* each group of the pass in index order its attribute followed at once by
\* its enable; the groups CUPTI holds enabled are those whose enable was
\* called, so none is enabled before the collection mode or its own
\* attribute was set; when the callback returns every group of the pass is
\* enabled.
C14_EntryBoundaryOrder ==
  EntryTrace =>
    /\ IsPrefix(trace, EntryCalls(TraceGroups))
    /\ enabled = { TraceGroups[trace[i][2]].handle :
                     i \in { n \in 1..Len(trace) : IsEnable(trace[n]) } }
    /\ (site = "EXIT" /\ pc = "callback") =>
         /\ trace = EntryCalls(TraceGroups)
         /\ enabled = HandlesOf(TraceGroups)

\* C14 witness: the entry boundary of a pass of two groups has returned with
\* both groups enabled.
C14_Witness ==
  /\ EntryTrace
  /\ site = "EXIT"
  /\ pc = "callback"
  /\ Len(TraceGroups) = 2
  /\ Len(trace) = 6
  /\ Cardinality(enabled) = 2

\* the groups of the pass at the cursor's index; none past the last pass
GroupsAtCursor ==
  IF current_pass < get_passes
  THEN HandlesOf(m_data[current_pass + 1].event_groups)
  ELSE {}

\* C15: while no call has failed, the groups CUPTI holds enabled are groups
\* of the pass at the cursor's index; from the return of that pass's entry
\* boundary until its exit boundary starts to disable they are exactly the
\* pass's groups; between launches, so after every completed exit boundary,
\* and whenever the cursor is at or past get_passes(), none is enabled.
C15_EnabledGroupsAreThePassAtCursor ==
  (failed = "none" /\ pc \notin {"start", "crashed"}) =>
    /\ enabled \subseteq GroupsAtCursor
    /\ ( /\ site = "EXIT"
         /\ pc \notin {"disable", "advance"}
         /\ current_pass < get_passes ) => enabled = GroupsAtCursor
    /\ pc = "idle" => enabled = {}
    /\ current_pass >= get_passes => enabled = {}

\* C15 witness: between the entry and the exit boundary of the second pass
\* its two groups are enabled and the group of the first pass no longer is.
C15_Witness ==
  /\ failed = "none"
  /\ site = "EXIT"
  /\ pc = "callback"
  /\ current_pass = 1
  /\ exited_passes = {1}
  /\ Cardinality(enabled) = 2
  /\ enabled = HandlesOf(m_data[2].event_groups)
  /\ HandlesOf(m_data[1].event_groups) \cap enabled = {}

RECURSIVE ConcatOf(_, _, _)
ConcatOf(data, n, field) ==
  IF n = 0 THEN <<>>
  ELSE ConcatOf(data, n - 1, field) \o data[n][field]

\* the num_events of the passes 1..n, added up
RECURSIVE SumNumEvents(_, _)
SumNumEvents(data, n) ==
  IF n = 0 THEN 0 ELSE SumNumEvents(data, n - 1) + data[n].num_events

\* C17: when stop() runs after the exit boundary of every pass, the id
\* buffer and the value buffer of each of its cuptiMetricGetValue calls are
\* the event_ids and the event_values of the metric passes 1..
\* m_metric_passes laid end to end in pass order: as long as the sum of
\* those passes' num_events, holding nothing of an event pass and nothing
\* that new[] left unwritten.
C17_MetricBuffersAreMetricPasses ==
  (stops >= 1 /\ exited_passes = AllPasses) =>
    \A i \in 1..Len(metric_calls) :
      /\ metric_calls[i].ids = ConcatOf(m_data, m_metric_passes, "event_ids")
      /\ metric_calls[i].values =
           ConcatOf(m_data, m_metric_passes, "event_values")
      /\ Len(metric_calls[i].ids) = SumNumEvents(m_data, m_metric_passes)
      /\ Len(metric_calls[i].values) = SumNumEvents(m_data, m_metric_passes)

\* C17 witness: stop() ran after two metric passes and an event pass had
\* completed and handed a buffer of two pairs to the metric computation.
C17_Witness ==
  /\ Stopped
  /\ exited_passes = AllPasses
  /\ m_metric_passes = 2
  /\ m_event_passes >= 1
  /\ Len(metric_calls) >= 1
  /\ Len(metric_calls[1].ids) = 2
  /\ metric_calls[1].ids[1] # metric_calls[1].ids[2]

\* what C18 says of every state of a profiler made when the cursor was
\* born_at
FirstCallbackTargetsCursor ==
  (pc # "start" /\ Len(m_data) > 0) =>
    /\ current_pass >= born_at
    /\ exited_passes = (born_at + 1)..current_pass
    /\ \A i \in 1..Len(m_data) :
         i <= born_at => m_data[i].event_ids = <<>>
    /\ (launches = 1 /\ site = "ENTER" /\ pc # "callback") =>
         /\ born_at < get_passes
         /\ current_pass = born_at
         /\ CallbackPass(current_pass, m_data) = born_at + 1
         /\ enabled \subseteq HandlesOf(m_data[born_at + 1].event_groups)
    /\ (launches >= 1 /\ born_at >= get_passes) =>
         /\ current_pass = born_at
         /\ trace = <<>>
         /\ enabled = {}
         /\ \A i \in 1..Len(m_data) : m_data[i].event_ids = <<>>

\* C18: the cursor belongs to the process, not to a profiler: no step, that
\* of making a new profiler, of its constructor and of stop() included,
\* lowers it, and those steps leave it as it is; the first callback of a
\* profiler made when the cursor was c works on the pass of index c, the
\* passes below c are never filled, and when c is at or past the profiler's
\* get_passes() its callbacks do nothing.
C18_CursorIsProcessWide ==
  /\ []FirstCallbackTargetsCursor
  /\ [][ /\ current_pass' >= current_pass
         /\ ( \/ profilers' # profilers
              \/ pc = "start"
              \/ stops' # stops ) => current_pass' = current_pass ]_vars

\* C18 witness: the second profiler of the process, made when the cursor
\* was 1, has two passes; its first launch filled the second of them and
\* left the first empty.
C18_Witness ==
  /\ profilers = 2
  /\ born_at = 1
  /\ get_passes = 2
  /\ launches = 1
  /\ pc = "idle"
  /\ current_pass = 2
  /\ m_data[1].event_ids = <<>>
  /\ m_data[2].event_ids # <<>>

\* C19 (as stated): once stop() has run after the exit boundary of the last
\* pass, no step changes m_events or m_metrics.
C19_ResultsImmutableAfterStop ==
  [][ (stops >= 1 /\ exited_passes = AllPasses) =>
        /\ m_events' = m_events
        /\ m_metrics' = m_metrics ]_vars

\* C20 (as stated): with an instance count of 0 the capture fails with
\* InvalidInstanceCount: nothing is divided and no value is recorded.
C20_ZeroInstanceCountFails ==
  norm_in.numInstances = 0 =>
    /\ norm_out = <<>>
    /\ pc # "start" => failed = "InvalidInstanceCount"

====
